---------------------------- MODULE Spec2Model ----------------------------
(***************************************************************************)
(* A model of the state-tracking core of the rollup node: the account     *)
(* tree store (core/account.go) and the event handlers of the syncer      *)
(* (listener).  The user_accounts table is a sequence of rows in          *)
(* insertion order; a query returns its rows in that order.  A path is a  *)
(* sequence of bits, a hash is the term that was hashed (Keccak256 is     *)
(* taken to be collision free): the hash of a leaf payload d is <<d>>,    *)
(* the hash of a pair of children is <<left, right>>.                     *)
(***************************************************************************)
EXTENDS Integers, Sequences, FiniteSets, TLC

(***************************************************************************)
(* Bounds of the model.                                                    *)
(***************************************************************************)
MaxDepth == 2
GenesisBalance == 2
MaxAmount == 1
MaxTxs == 2
MaxBatch == 2
MaxUser == 2
MaxSender == 1
MaxEvents == 2
MaxFailAt == 8
MaxDeposits == 2
MaxDepositSubTreeHeight == 1
MaxToken == 3
ScenarioDepth == 2
ScenarioBalance == 100
ScenarioAmount == 30
MaxAddress == 2

(***************************************************************************)
(* Program constants.                                                      *)
(***************************************************************************)
ZERO == 0
STATUS_PENDING == 0
STATUS_ACTIVE == 1
STATUS_INACTIVE == 2
TYPE_ROOT == 0
TYPE_TERMINAL == 1
TYPE_NON_TERMINAL == 2
BATCH_BROADCASTED == 0
BATCH_COMMITTED == 1
BATCH_FINALISED == 2

\* The empty string, as the value of a hash column.
NoHash == <<>>
\* The empty byte string, as the value of a data column.
NoData == <<>>
\* Keccak256 of a payload (common.Keccak256).
Keccak256(data) == <<data>>
\* The all-zero root of the listener.
ZEROROOT == Keccak256(<<0>>)
\* A root the local tree never has.
BOGUSROOT == Keccak256(<<1>>)

\* The largest element of a non-empty set of integers.
MaxOf(S) == CHOOSE m \in S : \A x \in S : x <= m

--------------------------------------------------------------------------
(***************************************************************************)
(* Paths and hashes of pairs: helpers of package core.                     *)
(***************************************************************************)
GetParent(left, right) == <<left, right>>

GetParentPath(path) == IF Len(path) = 0 THEN path ELSE SubSeq(path, 1, Len(path) - 1)

FlipBit(bit) == IF bit = 1 THEN 0 ELSE 1

GetOtherChild(path) ==
    IF Len(path) = 0 THEN path
    ELSE SubSeq(path, 1, Len(path) - 1) \o <<FlipBit(path[Len(path)])>>

\* The bit of path at place index counted from the right, index from 0.
GetNthBitFromRight(path, index) == path[Len(path) - index]

GenCoordinatorPath(depth) == [i \in 1..depth |-> 0]

\* The number a path spells in binary, and the path of a number.
RECURSIVE PathToInt(_)
PathToInt(path) ==
    IF Len(path) = 0 THEN 0
    ELSE 2 * PathToInt(SubSeq(path, 1, Len(path) - 1)) + path[Len(path)]

RECURSIVE IntToPath(_, _)
IntToPath(n, len) ==
    IF len = 0 THEN <<>>
    ELSE IntToPath(n \div 2, len - 1) \o <<n % 2>>

\* The path next to path on its level (the path plus one).
GetAdjacentNodePath(path) == IntToPath(PathToInt(path) + 1, Len(path))

\* The path of a pending leaf: not the path of any slot of the tree.
UNINITIALIZED_PATH == [i \in 1..(MaxDepth + 2) |-> 2]

--------------------------------------------------------------------------
(***************************************************************************)
(* Rows of the user_accounts table.                                        *)
(***************************************************************************)
\* The payload of an account: the encoding of (ID, balance, nonce).
EncodeAccount(id, balance, nonce) == <<id, balance, nonce>>

UserAccount(id, data, path, status, type, hash) ==
    [AccountID |-> id, Data |-> data, Path |-> path, Status |-> status,
     Type |-> type, Hash |-> hash, Level |-> Len(path),
     CreatedByDepositSubTree |-> NoHash]

NewUserAccount(id, status, path, data) ==
    UserAccount(id, data, path, status, TYPE_TERMINAL, Keccak256(data))

NewAccountNode(path, hash) ==
    UserAccount(ZERO, NoData, path, STATUS_ACTIVE, TYPE_NON_TERMINAL, hash)

\* NewPendingUserAccount that makes the account active.
NewPendingUserAccount_active(id, data) ==
    UserAccount(id, data, UNINITIALIZED_PATH, STATUS_ACTIVE, TYPE_TERMINAL,
                Keccak256(data))

NewPendingUserAccount(id, data) ==
    UserAccount(id, data, UNINITIALIZED_PATH, STATUS_PENDING, TYPE_TERMINAL,
                Keccak256(data))

EmptyAccount == NewUserAccount(ZERO, STATUS_INACTIVE, <<>>, NoData)

\* UpdatePath that leaves the level as it is.
UpdatePath_pathOnly(acc, path) == [acc EXCEPT !.Path = path]

\* acc moved to path: the path and the level change together.
UpdatePath(acc, path) == [acc EXCEPT !.Path = path, !.Level = Len(path)]

\* acc with its hash recomputed from its payload.
CreateAccountHash(acc) == [acc EXCEPT !.Hash = Keccak256(acc.Data)]

--------------------------------------------------------------------------
(***************************************************************************)
(* Queries.  A query that scans into one struct keeps the last row it      *)
(* reads and fails when it reads none.                                     *)
(***************************************************************************)
NotFound == [found |-> FALSE]
Found(acc) == [found |-> TRUE, acc |-> acc]

LastRow(accs, S) == IF S = {} THEN NotFound ELSE Found(accs[MaxOf(S)])

\* A query with First keeps the first row.
MinOf(S) == CHOOSE m \in S : \A x \in S : m <= x

FirstRow(accs, S) == IF S = {} THEN NotFound ELSE Found(accs[MinOf(S)])

GetDepositSubTreeRoot(accs, hash, level) ==
    FirstRow(accs, {i \in DOMAIN accs : accs[i].Level = level /\ accs[i].Hash = hash})

GetAccountByPath(accs, path) ==
    LastRow(accs, {i \in DOMAIN accs : accs[i].Path = path})

GetAccountByID(accs, ID) ==
    LastRow(accs, {i \in DOMAIN accs :
                      accs[i].AccountID = ID /\ accs[i].Status = STATUS_ACTIVE})

GetRoot(accs) == LastRow(accs, {i \in DOMAIN accs : accs[i].Level = 0})

\* The rows of a level, in table order.
GetAccountsAtDepth(accs, depth) == SelectSeq(accs, LAMBDA a : a.Level = depth)

RECURSIVE GetSiblingsFrom(_, _, _)
GetSiblingsFrom(accs, relativePath, i) ==
    IF i = 0 THEN [err |-> FALSE, siblings |-> <<>>]
    ELSE LET otherNode == GetAccountByPath(accs, GetOtherChild(relativePath))
         IN  IF ~otherNode.found THEN [err |-> TRUE, siblings |-> <<>>]
             ELSE LET rest == GetSiblingsFrom(accs, GetParentPath(relativePath), i - 1)
                  IN  [err |-> rest.err,
                       siblings |-> <<otherNode.acc>> \o rest.siblings]

\* GetSiblings that leaves out the sibling next to the root.
GetSiblings_short(accs, path) ==
    IF Len(path) = 0 THEN GetSiblingsFrom(accs, path, 0)
    ELSE GetSiblingsFrom(accs, path, Len(path) - 1)

\* GetSiblings with the siblings in root-to-leaf order.
GetSiblings_rootFirst(accs, path) ==
    LET r == GetSiblingsFrom(accs, path, Len(path))
    IN  [err |-> r.err,
         siblings |-> [i \in 1..Len(r.siblings) |-> r.siblings[Len(r.siblings) + 1 - i]]]

GetSiblings(accs, path) == GetSiblingsFrom(accs, path, Len(path))

--------------------------------------------------------------------------
(***************************************************************************)
(* Writes.  A store st is the table, the number of row updates asked of    *)
(* it so far, the update that fails (0: none) and the error met.           *)
(***************************************************************************)
Store(accs, failAt) == [accs |-> accs, n |-> 0, failAt |-> failAt, err |-> "none"]

Fail(st, err) == [st EXCEPT !.err = err]

\* An update with a struct changes the columns whose new value is not the
\* zero value of its type.
Changed(old, new) ==
    [AccountID |-> IF new.AccountID = 0 THEN old.AccountID ELSE new.AccountID,
     Data |-> IF new.Data = NoData THEN old.Data ELSE new.Data,
     Path |-> IF new.Path = <<>> THEN old.Path ELSE new.Path,
     Status |-> IF new.Status = 0 THEN old.Status ELSE new.Status,
     Type |-> IF new.Type = 0 THEN old.Type ELSE new.Type,
     Hash |-> IF new.Hash = NoHash THEN old.Hash ELSE new.Hash,
     Level |-> IF new.Level = 0 THEN old.Level ELSE new.Level,
     CreatedByDepositSubTree |->
        IF new.CreatedByDepositSubTree = NoHash THEN old.CreatedByDepositSubTree
        ELSE new.CreatedByDepositSubTree]

updateAccount(st, newAcc, path) ==
    IF st.err # "none" THEN st
    ELSE IF st.n + 1 = st.failAt
         THEN [st EXCEPT !.n = st.n + 1, !.err = "StorageWriteFailure"]
         ELSE [st EXCEPT !.n = st.n + 1,
                         !.accs = [i \in DOMAIN st.accs |->
                                     IF st.accs[i].Path = path
                                     THEN Changed(st.accs[i], newAcc)
                                     ELSE st.accs[i]]]

\* A struct with a path and a hash and every other field zero.
TempAccount(path, hash) ==
    [AccountID |-> 0, Data |-> NoData, Path |-> path, Status |-> 0, Type |-> 0,
     Hash |-> hash, Level |-> 0, CreatedByDepositSubTree |-> NoHash]

UpdateParentWithHash(st, pathToParent, newHash) ==
    updateAccount(st, TempAccount(pathToParent, newHash), pathToParent)

UpdateRootNodeHashes(st, newRoot) ==
    updateAccount(st, TempAccount(<<>>, newRoot), <<>>)

\* StoreNode that writes the left node over the row of the right node.
StoreNode_overwrites(st, parentHash, leftNode, rightNode) ==
    UpdateParentWithHash(
        updateAccount(updateAccount(st, leftNode, leftNode.Path),
                      leftNode, rightNode.Path),
        GetParentPath(leftNode.Path), parentHash)

\* The left node, the right node, then their parent: three updates.
StoreNode(st, parentHash, leftNode, rightNode) ==
    UpdateParentWithHash(
        updateAccount(updateAccount(st, leftNode, leftNode.Path),
                      rightNode, rightNode.Path),
        GetParentPath(leftNode.Path), parentHash)

\* StoreLeafRound with the two children the wrong way round.
StoreLeafRound_swapped(st, computedNode, path, sibling, i) ==
    LET isComputedRightSibling == GetNthBitFromRight(path, i)
        leftNode == IF isComputedRightSibling = 1 THEN computedNode ELSE sibling
        rightNode == IF isComputedRightSibling = 1 THEN sibling ELSE computedNode
    IN  StoreNode(st, GetParent(leftNode.Hash, rightNode.Hash), leftNode, rightNode)

\* Round i of the loop of StoreLeaf, up to the call of StoreNode: the
\* computed node is the left child when bit i of path from the right is 0.
StoreLeafRound(st, computedNode, path, sibling, i) ==
    LET isComputedRightSibling == GetNthBitFromRight(path, i)
        leftNode == IF isComputedRightSibling = 0 THEN computedNode ELSE sibling
        rightNode == IF isComputedRightSibling = 0 THEN sibling ELSE computedNode
    IN  StoreNode(st, GetParent(leftNode.Hash, rightNode.Hash), leftNode, rightNode)

\* The rounds of the loop of StoreLeaf from round i on, then the root.
RECURSIVE StoreLeafFrom(_, _, _, _, _)
\* The rest of round i, st being the store after its StoreNode: the parent
\* is read back and becomes the computed node.
StoreLeafNext(st, computedNode, path, siblings, i) ==
    IF st.err # "none" THEN st
    ELSE LET parentAccount == GetAccountByPath(st.accs, GetParentPath(computedNode.Path))
         IN  IF ~parentAccount.found THEN Fail(st, "NotFound")
             ELSE StoreLeafFrom(st, parentAccount.acc, path, siblings, i + 1)

StoreLeafFrom(st, computedNode, path, siblings, i) ==
    IF st.err # "none" THEN st
    ELSE IF i >= Len(siblings) THEN UpdateRootNodeHashes(st, computedNode.Hash)
    ELSE StoreLeafNext(StoreLeafRound(st, computedNode, path, siblings[i + 1], i),
                       computedNode, path, siblings, i)

StoreLeaf(st, account, path, siblings) == StoreLeafFrom(st, account, path, siblings, 0)

UpdateAccount(st, account) ==
    IF st.err # "none" THEN st
    ELSE LET acc == CreateAccountHash(account)
             sib == GetSiblings(st.accs, acc.Path)
         IN  IF sib.err THEN Fail(st, "NotFound")
             ELSE StoreLeaf(st, acc, acc.Path, sib.siblings)

--------------------------------------------------------------------------
(***************************************************************************)
(* InitBalancesTree.                                                       *)
(***************************************************************************)
RECURSIVE Exp2(_)
Exp2(n) == IF n = 0 THEN 1 ELSE 2 * Exp2(n - 1)

InsertCoordinatorAccounts(acc, depth) ==
    [CreateAccountHash(UpdatePath(acc, GenCoordinatorPath(depth)))
        EXCEPT !.Type = TYPE_TERMINAL]

\* The genesis accounts after the coordinator, each at the path next to
\* the one before it.
RECURSIVE PlaceGenesis(_, _, _)
PlaceGenesis(genesisAccounts, i, prevNodePath) ==
    IF i > Len(genesisAccounts) THEN <<>>
    ELSE LET pathToAdjacentNode == GetAdjacentNodePath(prevNodePath)
         IN  <<UpdatePath(genesisAccounts[i], pathToAdjacentNode)>>
                \o PlaceGenesis(genesisAccounts, i + 1, pathToAdjacentNode)

\* NextLevelAccounts that moves on by one row, not by two.
RECURSIVE NextLevelAccounts_byOne(_, _)
NextLevelAccounts_byOne(accs, i) ==
    IF i + 1 > Len(accs) THEN <<>>
    ELSE <<NewAccountNode(GetParentPath(accs[i].Path),
                          GetParent(accs[i].Hash, accs[i + 1].Hash))>>
            \o NextLevelAccounts_byOne(accs, i + 1)

\* The parents of the rows accs taken two at a time.
RECURSIVE NextLevelAccounts(_, _)
NextLevelAccounts(accs, i) ==
    IF i + 1 > Len(accs) THEN <<>>
    ELSE <<NewAccountNode(GetParentPath(accs[i].Path),
                          GetParent(accs[i].Hash, accs[i + 1].Hash))>>
            \o NextLevelAccounts(accs, i + 2)

RECURSIVE Merkelise(_, _)
Merkelise(accs, i) ==
    IF i = 0 THEN accs
    ELSE Merkelise(accs \o NextLevelAccounts(GetAccountsAtDepth(accs, i), 1), i - 1)

\* InitBalancesTree that inserts the coordinator before it compares the
\* number of leaves with the depth.
InitBalancesTree_insertsFirst(accs, depth, genesisAccounts) ==
    LET coordinator == InsertCoordinatorAccounts(genesisAccounts[1], depth)
        insertRecords == PlaceGenesis(genesisAccounts, 2, coordinator.Path)
    IN  IF Exp2(depth) # Len(genesisAccounts)
        THEN [err |-> TRUE, accs |-> accs \o <<coordinator>>]
        ELSE [err |-> FALSE,
              accs |-> Merkelise((accs \o <<coordinator>>) \o insertRecords, depth)]

InitBalancesTree(accs, depth, genesisAccounts) ==
    IF Exp2(depth) # Len(genesisAccounts)
    THEN [err |-> TRUE, accs |-> accs]
    ELSE LET coordinator == InsertCoordinatorAccounts(genesisAccounts[1], depth)
             insertRecords == PlaceGenesis(genesisAccounts, 2, coordinator.Path)
         IN  [err |-> FALSE,
              accs |-> Merkelise((accs \o <<coordinator>>) \o insertRecords, depth)]

\* Genesis accounts: the coordinator, users 1..users with the genesis
\* balance, and empty accounts in the slots that are left.
GenesisAccounts(depth, users) ==
    [i \in 1..Exp2(depth) |->
        IF i = 1 THEN NewUserAccount(ZERO, STATUS_ACTIVE, <<>>, EncodeAccount(0, 0, 0))
        ELSE IF i - 1 <= users
             THEN NewUserAccount(i - 1, STATUS_ACTIVE, <<>>,
                                 EncodeAccount(i - 1, GenesisBalance, 0))
             ELSE EmptyAccount]

--------------------------------------------------------------------------
(***************************************************************************)
(* Pending accounts and the deposit subtree.  The accumulator is the       *)
(* height and the root of the subtree of the deposits not yet finalised.   *)
(***************************************************************************)
AddNewPendingAccount(accs, acc) == Append(accs, acc)

\* DeletePendingAccount that deletes nothing.
DeletePendingAccount_keeps(accs, ID) == accs

\* The error DeletePendingAccount returns: that of the delete statement,
\* which is none when the statement matches no row.
DeletePendingAccountError(accs, ID) == "none"

\* The rows of account ID in pending status are deleted; deleting none is
\* no error.
DeletePendingAccount(accs, ID) ==
    SelectSeq(accs, LAMBDA a : ~(a.AccountID = ID /\ a.Status = STATUS_PENDING))

\* AttachDepositInfo that tags the pending rows that have no tag yet.
AttachDepositInfo_untagged(accs, root) ==
    [i \in DOMAIN accs |->
        IF accs[i].Status = STATUS_PENDING /\ accs[i].CreatedByDepositSubTree = NoHash
        THEN [accs[i] EXCEPT !.CreatedByDepositSubTree = root]
        ELSE accs[i]]

\* Every pending row is tagged with root.
AttachDepositInfo(accs, root) ==
    [i \in DOMAIN accs |->
        IF accs[i].Status = STATUS_PENDING
        THEN [accs[i] EXCEPT !.CreatedByDepositSubTree = root]
        ELSE accs[i]]

GetPendingAccByDepositRoot(accs, root) ==
    SelectSeq(accs, LAMBDA a :
        a.CreatedByDepositSubTree = root /\ a.Status = STATUS_PENDING)

EmptyDepositTree == [height |-> 0, root |-> NoHash]

\* mergeLeaf: the subtree grows by one level and the pending leaves are
\* tagged with its new root; refused beyond the maximal height.
OnDepositLeafMerge(accs, tree, left, right, newRoot) ==
    IF tree.height + 1 > MaxDepositSubTreeHeight
    THEN [err |-> "HeightExceeded", accs |-> accs, tree |-> tree, newheight |-> tree.height]
    ELSE [err |-> "none", accs |-> AttachDepositInfo(accs, newRoot),
          tree |-> [height |-> tree.height + 1, root |-> newRoot],
          newheight |-> tree.height + 1]

RECURSIVE FinaliseFrom(_, _, _, _, _)
\* The rest of round i of the graft, st being the store after the update
\* of the leaf: its pending row is deleted.
FinaliseNext(st, pending, subTreePath, height, i) ==
    IF st.err # "none" THEN st
    ELSE FinaliseFrom([st EXCEPT !.accs = DeletePendingAccount(st.accs, pending[i].AccountID)],
                      pending, subTreePath, height, i + 1)

\* The result of finalize, st being the store after the graft.
FinaliseResult(st, tree) ==
    IF st.err # "none" THEN [err |-> st.err, accs |-> st.accs, tree |-> tree]
    ELSE [err |-> "none", accs |-> st.accs, tree |-> EmptyDepositTree]

\* The pending leaves from the i-th on become active leaves of the subtree
\* at subTreePath, one slot after the other, and their pending rows go.
FinaliseFrom(st, pending, subTreePath, height, i) ==
    IF i > Len(pending) \/ st.err # "none" THEN st
    ELSE FinaliseNext(
            UpdateAccount(st,
                [UpdatePath(pending[i], subTreePath \o IntToPath(i - 1, height))
                    EXCEPT !.Status = STATUS_ACTIVE]),
            pending, subTreePath, height, i)

\* finalize: refused when accountsRoot is not the root of the accumulator;
\* the leaves tagged with it are grafted and the accumulator is reset.
FinaliseDepositsAndAddBatch(accs, tree, depth, accountsRoot, pathToDepositSubTree) ==
    IF accountsRoot # tree.root \/ tree.root = NoHash \/ tree.height > depth
    THEN [err |-> "StaleFinalize", accs |-> accs, tree |-> tree]
    ELSE FinaliseResult(
            FinaliseFrom(Store(accs, 0), GetPendingAccByDepositRoot(accs, accountsRoot),
                         IntToPath(pathToDepositSubTree, depth - tree.height),
                         tree.height, 1),
            tree)

\* The handlers of the deposit events.  A result is the two stores, the
\* error met, whether the handler panicked on it ("panic") or returned
\* ("ok"), and whether a finalisation was fired at the chain.
DepositResult(accs, tree, err, outcome, sent) ==
    [accs |-> accs, tree |-> tree, err |-> err, outcome |-> outcome, sent |-> sent]

processDepositQueued(accs, tree, event) ==
    DepositResult(
        AddNewPendingAccount(accs, NewPendingUserAccount(event.AccountID, event.Data)),
        tree, "none", "ok", FALSE)

\* The hash of a subtree of empty leaves.
RECURSIVE EmptySubTreeHash(_)
EmptySubTreeHash(height) ==
    IF height = 0 THEN EmptyAccount.Hash
    ELSE GetParent(EmptySubTreeHash(height - 1), EmptySubTreeHash(height - 1))

\* The node a deposit subtree is to replace, the root of an empty subtree
\* of the maximal deposit height, and its siblings.
GetDepositNodeAndSiblings(accs, depth) ==
    IF depth < MaxDepositSubTreeHeight THEN [err |-> TRUE]
    ELSE LET node == GetDepositSubTreeRoot(accs, EmptySubTreeHash(MaxDepositSubTreeHeight),
                                           depth - MaxDepositSubTreeHeight)
         IN  IF ~node.found THEN [err |-> TRUE]
             ELSE [err |-> GetSiblings(accs, node.acc.Path).err,
                   nodeToBeReplaced |-> node.acc,
                   siblings |-> GetSiblings(accs, node.acc.Path).siblings]

\* The finalisation is fired unless the node and its siblings cannot be
\* had, and then the function just returns.
SendDepositFinalisationTx(accs, depth) ==
    [fired |-> ~GetDepositNodeAndSiblings(accs, depth).err]

\* The handler after a merge that reached the maximal height.
Eligible(accs, tree, s) ==
    DepositResult(accs, tree, IF s.fired THEN "none" ELSE "NotFound", "ok", s.fired)

\* LeafMerged that goes on after a refused merge.
LeafMerged_swallows(accs, tree, depth, r) ==
    IF r.err # "none" THEN DepositResult(accs, tree, "none", "ok", FALSE)
    ELSE IF r.newheight = MaxDepositSubTreeHeight
    THEN Eligible(r.accs, r.tree, SendDepositFinalisationTx(r.accs, depth))
    ELSE DepositResult(r.accs, r.tree, "none", "ok", FALSE)

LeafMerged(accs, tree, depth, r) ==
    IF r.err # "none" THEN DepositResult(accs, tree, r.err, "panic", FALSE)
    ELSE IF r.newheight = MaxDepositSubTreeHeight
    THEN Eligible(r.accs, r.tree, SendDepositFinalisationTx(r.accs, depth))
    ELSE DepositResult(r.accs, r.tree, "none", "ok", FALSE)

processDepositLeafMerged(accs, tree, depth, event) ==
    LeafMerged(accs, tree, depth,
               OnDepositLeafMerge(accs, tree, event.Left, event.Right, event.NewRoot))

\* The error of the finalisation is printed and the handler returns.
DepositFinalised(r) == DepositResult(r.accs, r.tree, r.err, "ok", FALSE)

\* processDepositFinalised that finalises the subtree it holds whatever
\* root the event reports.
processDepositFinalised_ownRoot(accs, tree, depth, event) ==
    DepositFinalised(
        FinaliseDepositsAndAddBatch(accs, tree, depth, tree.root, event.PathToSubTree))

processDepositFinalised(accs, tree, depth, event) ==
    DepositFinalised(
        FinaliseDepositsAndAddBatch(accs, tree, depth, event.DepositSubTreeRoot,
                                    event.PathToSubTree))

--------------------------------------------------------------------------
(***************************************************************************)
(* Transfers.  A transaction is [from, to, amount]; the decoder and the    *)
(* rollup contract's ApplyTx are collaborators of the listener.            *)
(***************************************************************************)
Tx(from, to, amount) == [from |-> from, to |-> to, amount |-> amount]

\* The payload decoded: no payload decodes the empty byte string.
DecodeAccount(data) ==
    IF Len(data) # 3 THEN [err |-> TRUE]
    ELSE [err |-> FALSE, ID |-> data[1], balance |-> data[2], nonce |-> data[3]]

Balance(acc) == DecodeAccount(acc.Data).balance
Nonce(acc) == DecodeAccount(acc.Data).nonce

\* The payload of an account after tx: the sender pays and its nonce grows,
\* the receiver is paid.
ApplyTx(accData, tx) ==
    LET d == DecodeAccount(accData)
    IN  IF d.err THEN [err |-> "DecodeFailure"]
        ELSE IF d.ID = tx.from
             THEN IF d.balance < tx.amount THEN [err |-> "InvalidTransaction"]
                  ELSE [err |-> "none",
                        data |-> EncodeAccount(d.ID, d.balance - tx.amount, d.nonce + 1)]
             ELSE [err |-> "none",
                   data |-> EncodeAccount(d.ID, d.balance + tx.amount, d.nonce)]

\* The sender's and the receiver's leaves, loaded by account id.
GetVerificationData(accs, tx) ==
    LET fromAcc == GetAccountByID(accs, tx.from)
        toAcc == GetAccountByID(accs, tx.to)
    IN  IF ~fromAcc.found \/ ~toAcc.found THEN [err |-> "NotFound"]
        ELSE [err |-> "none", fromMP |-> fromAcc.acc, toMP |-> toAcc.acc]

\* Tx.Apply: both updated leaves persisted, the sender's first.
\* The leaf of account ID with its payload replaced by data, persisted.
ApplyToAccount(st, ID, data) ==
    IF st.err # "none" THEN st
    ELSE LET acc == GetAccountByID(st.accs, ID)
         IN  IF ~acc.found THEN Fail(st, "NotFound")
             ELSE UpdateAccount(st, [acc.acc EXCEPT !.Data = data])

Apply(st, tx, updatedFrom, updatedTo) ==
    ApplyToAccount(ApplyToAccount(st, tx.from, updatedFrom), tx.to, updatedTo)

\* One round of the loop of ApplyTxsFromBatch.
ApplyOneTx(st, tx) ==
    LET fromAccount == GetAccountByID(st.accs, tx.from)
    IN  IF ~fromAccount.found THEN Fail(st, "NotFound")
        ELSE IF DecodeAccount(fromAccount.acc.Data).err THEN Fail(st, "DecodeFailure")
        ELSE LET vd == GetVerificationData(st.accs, tx)
             IN  IF vd.err # "none" THEN Fail(st, vd.err)
                 ELSE LET updatedFrom == ApplyTx(vd.fromMP.Data, tx)
                          updatedTo == ApplyTx(vd.toMP.Data, tx)
                      IN  IF updatedFrom.err # "none" THEN Fail(st, updatedFrom.err)
                          ELSE IF updatedTo.err # "none" THEN Fail(st, updatedTo.err)
                          ELSE Apply(st, tx, updatedFrom.data, updatedTo.data)

RECURSIVE ApplyTxsFrom(_, _, _)
ApplyTxsFrom(st, txs, i) ==
    IF i > Len(txs) \/ st.err # "none" THEN st
    ELSE ApplyTxsFrom(ApplyOneTx(st, txs[i]), txs, i + 1)

ApplyTxsFromBatch(st, txs) == ApplyTxsFrom(st, txs, 1)

--------------------------------------------------------------------------
(***************************************************************************)
(* The batch ledger: the rows of the batches table, in insertion order.    *)
(***************************************************************************)
RECURSIVE ConcatTxs(_)
ConcatTxs(txs) ==
    IF Len(txs) = 0 THEN <<>>
    ELSE <<txs[1].from, txs[1].to, txs[1].amount>> \o ConcatTxs(Tail(txs))

\* The root of a batch's transactions: the all-zero root when it has none.
TxRootOf(txs) == IF Len(txs) = 0 THEN ZEROROOT ELSE Keccak256(<<2>> \o ConcatTxs(txs))

Batch(id, stateRoot, txRoot, txs, status) ==
    [BatchID |-> id, StateRoot |-> stateRoot, TxRoot |-> txRoot,
     TransactionsIncluded |-> ConcatTxs(txs), Status |-> status]

BatchRows(bats, id) == {i \in DOMAIN bats : bats[i].BatchID = id}

GetBatchByIndex(bats, id) ==
    LET S == BatchRows(bats, id)
    IN  IF S = {} THEN [found |-> FALSE]
        ELSE [found |-> TRUE, batch |-> bats[CHOOSE i \in S : \A j \in S : i <= j]]

\* recordCommitted: a new row, refused when the id is in the ledger.
AddNewBatch(bats, batch) ==
    IF BatchRows(bats, batch.BatchID) # {} THEN [err |-> "DuplicateBatch", bats |-> bats]
    ELSE [err |-> "none", bats |-> Append(bats, batch)]

\* CommitBatch that writes the batch whatever status the ledger holds.
CommitBatch_unguarded(bats, batch) ==
    [err |-> "none",
     bats |-> [i \in DOMAIN bats |->
                 IF bats[i].BatchID = batch.BatchID THEN batch ELSE bats[i]]]

\* transitionStatus to the status of batch, with its roots: forward only.
CommitBatch(bats, batch) ==
    LET old == GetBatchByIndex(bats, batch.BatchID)
    IN  IF ~old.found THEN [err |-> "NotFound", bats |-> bats]
        ELSE IF old.batch.Status >= batch.Status
             THEN [err |-> "InvalidTransition", bats |-> bats]
             ELSE [err |-> "none",
                   bats |-> [i \in DOMAIN bats |->
                               IF bats[i].BatchID = batch.BatchID THEN batch
                               ELSE bats[i]]]

--------------------------------------------------------------------------
(***************************************************************************)
(* The NewBatch handler.  An event is [Index, Txroot, UpdatedRoot, txs],   *)
(* txs being the call data of the transaction that emitted it.  The        *)
(* handler's result is the two tables, how it ended (ok, returned, panic)  *)
(* with the error met, and the branch it took.                             *)
(***************************************************************************)
NewBatchEvent(index, txs, updatedRoot) ==
    [Index |-> index, Txroot |-> TxRootOf(txs), UpdatedRoot |-> updatedRoot, txs |-> txs]

\* FetcherCalled that holds for every event.
FetcherCalled_always(event) == TRUE

\* The handler fetches the call data of the batch unless the transaction
\* root of the event is the all-zero root.
FetcherCalled(event) == ZEROROOT # event.Txroot

\* The call data of the batch, fetched unless the batch is empty.
FetchedTxs(event) == IF FetcherCalled(event) THEN event.txs ELSE <<>>

\* NewBatchRecord with the two roots taken from the wrong fields.
NewBatchRecord_swapped(event, txs) ==
    Batch(event.Index, event.Txroot, event.UpdatedRoot, txs, BATCH_COMMITTED)

\* The batch record the handler builds from the event.
NewBatchRecord(event, txs) ==
    Batch(event.Index, event.UpdatedRoot, event.Txroot, txs, BATCH_COMMITTED)

Result(accs, bats, outcome, err, branch) ==
    [accs |-> accs, bats |-> bats, outcome |-> outcome, err |-> err, branch |-> branch]

\* The batch was not in the ledger: apply its transactions, then record it.
\* The batch was not in the ledger and st is the store after its
\* transactions were applied: the batch is recorded.
RecordNewBatch(st, bats, event, txs, ledgerFails) ==
    LET added == AddNewBatch(bats, NewBatchRecord(event, txs))
    IN  IF st.err # "none" THEN Result(st.accs, bats, "panic", st.err, "new")
        ELSE IF ledgerFails THEN Result(st.accs, bats, "panic", "BatchWriteFailure", "new")
        ELSE IF added.err # "none" THEN Result(st.accs, bats, "panic", added.err, "new")
        ELSE Result(st.accs, added.bats, "ok", "none", "new")

\* The batch was not in the ledger: apply its transactions, then record it.
NewBatchNotFound(accs, bats, event, txs, failAt, ledgerFails) ==
    RecordNewBatch(ApplyTxsFromBatch(Store(accs, failAt), txs), bats, event, txs,
                   ledgerFails)

\* NewBatchFound that applies the transactions before it commits the batch.
NewBatchFound_reapplies(accs, bats, event, txs, batch) ==
    IF batch.Status # BATCH_COMMITTED
    THEN Result(ApplyTxsFromBatch(Store(accs, 0), txs).accs,
                CommitBatch(bats, NewBatchRecord(event, txs)).bats,
                "ok", "none", "notCommitted")
    ELSE Result(accs, bats, "ok", "none", "committed")

\* The batch is in the ledger: it is committed unless it already is.
NewBatchFound(accs, bats, event, txs, batch) ==
    IF batch.Status # BATCH_COMMITTED
    THEN Result(accs, CommitBatch(bats, NewBatchRecord(event, txs)).bats,
                "ok", "none", "notCommitted")
    ELSE Result(accs, bats, "ok", "none", "committed")

processNewBatch(accs, bats, event, failAt, ledgerFails) ==
    LET txs == FetchedTxs(event)
        got == GetBatchByIndex(bats, event.Index)
    IN  IF ~got.found THEN NewBatchNotFound(accs, bats, event, txs, failAt, ledgerFails)
        ELSE NewBatchFound(accs, bats, event, txs, got.batch)

--------------------------------------------------------------------------
(***************************************************************************)
(* The token table: the rows of the tokens table, in insertion order.      *)
(***************************************************************************)
Token(id, address) == [TokenID |-> id, Address |-> address]

TokenRows(toks, id) == {i \in DOMAIN toks : toks[i].TokenID = id}

\* AddToken that writes the address over the one the id is registered with.
AddToken_overwrites(toks, token) ==
    IF TokenRows(toks, token.TokenID) # {}
    THEN [err |-> "none",
          toks |-> [i \in DOMAIN toks |->
                      IF toks[i].TokenID = token.TokenID THEN token ELSE toks[i]]]
    ELSE [err |-> "none", toks |-> Append(toks, token)]

\* A new row, refused when the id is registered.
AddToken(toks, token) ==
    IF TokenRows(toks, token.TokenID) # {}
    THEN [err |-> "DuplicateToken", toks |-> toks]
    ELSE [err |-> "none", toks |-> Append(toks, token)]

\* The handler of RegisteredToken panics on the error of AddToken.
TokenResult(added) ==
    [toks |-> added.toks, err |-> added.err,
     outcome |-> IF added.err # "none" THEN "panic" ELSE "ok"]

processRegisteredToken(toks, event) ==
    TokenResult(AddToken(toks, Token(event.TokenType, event.TokenContract)))

--------------------------------------------------------------------------
(***************************************************************************)
(* The state: the two tables, the deposit subtree, the depth the tree was  *)
(* initialised with, the numbers of NewBatch and of DepositQueued events   *)
(* handled, the last event with its outcome, and the token table.          *)
(***************************************************************************)
VARIABLES accounts, batches, depositTree, treeDepth, nEvents, nDeposits, last,
          tokens

vars == <<accounts, batches, depositTree, treeDepth, nEvents, nDeposits, last,
          tokens>>

RootHash(accs) == GetRoot(accs).acc.Hash

Users == 0..MaxUser

\* The transfers of the events: a sender that is a genesis user, and a
\* receiver that is another genesis user, a depositor, or an account the
\* tree does not hold.
Receivers == (MaxSender + 1)..(MaxUser + 1)

Txs == {Tx(f, t, a) : f \in 1..MaxSender, t \in Receivers, a \in 1..MaxAmount}

TxLists == UNION {[1..n -> Txs] : n \in 0..MaxTxs}

\* The roots a NewBatch event may report for txs: the root the tree has
\* once txs are applied, the root it has now, and a root it never has.
ReportedRoots(accs, txs) ==
    {RootHash(ApplyTxsFromBatch(Store(accs, 0), txs).accs), RootHash(accs), BOGUSROOT}

NoEvent == [kind |-> "none"]

Init ==
    /\ accounts = <<>>
    /\ batches = <<>>
    /\ depositTree = EmptyDepositTree
    /\ treeDepth = 0
    /\ nEvents = 0
    /\ nDeposits = 0
    /\ last = NoEvent
    /\ tokens = <<>>

Initialised == accounts # <<>>

\* The node initialises the tree before it handles an event, and once: a
\* call on a store that holds a tree is one whose list of genesis accounts
\* does not fit the depth.
DoInitBalancesTree(depth, genesisAccounts) ==
    /\ nEvents = 0
    /\ Initialised => Exp2(depth) # Len(genesisAccounts)
    /\ LET r == InitBalancesTree(accounts, depth, genesisAccounts)
       IN  /\ accounts' = r.accs
           /\ treeDepth' = IF r.err THEN treeDepth ELSE depth
           /\ last' = [kind |-> "InitBalancesTree", depth |-> depth,
                       count |-> Len(genesisAccounts),
                       err |-> IF r.err THEN "DimensionMismatch" ELSE "none"]
    /\ UNCHANGED <<batches, depositTree, nEvents, nDeposits, tokens>>

\* The handler of event ended with result r.
Handled(event, r) ==
    /\ accounts' = r.accs
    /\ batches' = r.bats
    /\ last' = [kind |-> "NewBatch", event |-> event, outcome |-> r.outcome,
                err |-> r.err, branch |-> r.branch,
                fetched |-> FetcherCalled(event)]
    /\ nEvents' = nEvents + 1
    /\ UNCHANGED <<depositTree, treeDepth, nDeposits, tokens>>

\* A NewBatch event is handled; update failAt of the account table fails
\* (0: none), and so does the insert into the ledger when ledgerFails.
NewBatchStep(event, failAt, ledgerFails) ==
    /\ Initialised
    /\ nEvents < MaxEvents
    /\ Handled(event, processNewBatch(accounts, batches, event, failAt, ledgerFails))

NewBatch ==
    /\ Initialised
    /\ \E index \in 1..MaxBatch, txs \in TxLists :
          \E root \in ReportedRoots(accounts, txs) :
              NewBatchStep(NewBatchEvent(index, txs, root), 0, FALSE)

\* The node has applied txs, which left store st, and records the batch.
Submitted(index, txs, st) ==
    /\ st.err = "none"
    /\ accounts' = st.accs
    /\ batches' = Append(batches,
          Batch(index, RootHash(st.accs), TxRootOf(txs), txs, BATCH_BROADCASTED))
    /\ last' = [kind |-> "SubmitBatch"]
    /\ UNCHANGED <<depositTree, treeDepth, nEvents, nDeposits, tokens>>

\* The node submits a batch of its own: the transactions are applied
\* locally and the batch is recorded as broadcasted.
SubmitBatch ==
    \E index \in 1..MaxBatch, txs \in TxLists \ {<<>>} :
        /\ Initialised
        /\ ~GetBatchByIndex(batches, index).found
        /\ Submitted(index, txs, ApplyTxsFromBatch(Store(accounts, 0), txs))

\* The finalisation time of a committed batch has passed.
FinaliseBatch ==
    \E index \in 1..MaxBatch :
        /\ GetBatchByIndex(batches, index).found
        /\ GetBatchByIndex(batches, index).batch.Status = BATCH_COMMITTED
        /\ batches' = [i \in DOMAIN batches |->
                          IF batches[i].BatchID = index
                          THEN [batches[i] EXCEPT !.Status = BATCH_FINALISED]
                          ELSE batches[i]]
        /\ last' = [kind |-> "FinaliseBatch"]
        /\ UNCHANGED <<accounts, depositTree, treeDepth, nEvents, nDeposits, tokens>>

\* The handler of a deposit event ended with result r.
DepositHandled(kind, event, r) ==
    /\ accounts' = r.accs
    /\ depositTree' = r.tree
    /\ last' = [kind |-> kind, event |-> event, outcome |-> r.outcome,
                err |-> r.err, sent |-> r.sent]
    /\ UNCHANGED <<batches, treeDepth, nEvents, tokens>>

\* The ids of the deposits: the chain gives a deposit an id no account has,
\* and queues no more deposits than a deposit subtree holds.
DepositIds == MaxUser..(MaxUser + 1)

PendingRows(accs) == SelectSeq(accs, LAMBDA a : a.Status = STATUS_PENDING)

DepositQueued ==
    \E id \in DepositIds :
        /\ Initialised
        /\ nDeposits < MaxDeposits
        /\ Len(PendingRows(accounts)) < Exp2(MaxDepositSubTreeHeight)
        /\ \A i \in DOMAIN accounts : accounts[i].AccountID # id
        /\ nDeposits' = nDeposits + 1
        /\ DepositHandled("DepositQueued",
              [AccountID |-> id, Data |-> EncodeAccount(id, MaxAmount, 0)],
              processDepositQueued(accounts, depositTree,
                  [AccountID |-> id, Data |-> EncodeAccount(id, MaxAmount, 0)]))

\* The event of the merge of the two last deposits, or of the subtree so
\* far and the last deposit.
MergeEvent(pending, tree) ==
    [Left |-> IF tree.height = 0 THEN pending[Len(pending) - 1].Hash ELSE tree.root,
     Right |-> pending[Len(pending)].Hash,
     NewRoot |-> GetParent(
                    IF tree.height = 0 THEN pending[Len(pending) - 1].Hash ELSE tree.root,
                    pending[Len(pending)].Hash)]

DepositLeafMerged ==
    /\ Initialised
    /\ Len(PendingRows(accounts)) >= 2
    /\ nDeposits' = nDeposits
    /\ DepositHandled("DepositLeafMerged", MergeEvent(PendingRows(accounts), depositTree),
          processDepositLeafMerged(accounts, depositTree, treeDepth,
              MergeEvent(PendingRows(accounts), depositTree)))

\* The leaves below the node at path are all empty.
SubTreeEmpty(accs, path) ==
    \A i \in DOMAIN accs :
        (/\ accs[i].Type = TYPE_TERMINAL
         /\ accs[i].Status # STATUS_PENDING
         /\ Len(accs[i].Path) >= Len(path)
         /\ SubSeq(accs[i].Path, 1, Len(path)) = path)
        => accs[i].Status = STATUS_INACTIVE

\* The roots a stale DepositsFinalised event may report: the root of a
\* subtree finalised before (an event delivered again) and a root no
\* subtree has.
StaleRoots(accs, tree) ==
    ({BOGUSROOT} \cup {accs[i].CreatedByDepositSubTree : i \in DOMAIN accs})
        \ {tree.root, NoHash}

\* The places a stale event may report: the place of the event before it,
\* when it is delivered again, or place 0.
StalePlaces(l) ==
    {0} \cup (IF l.kind = "DepositsFinalised" THEN {l.event.PathToSubTree} ELSE {})

DepositsFinalisedStep(event) ==
    /\ nDeposits' = nDeposits
    /\ DepositHandled("DepositsFinalised", event,
          processDepositFinalised(accounts, depositTree, treeDepth, event))

\* The chain has inserted the deposit subtree, which has reached the
\* maximal height, at an empty place of its tree, or an event comes that
\* reports another root than the subtree's.
DepositsFinalised ==
    /\ Initialised
    /\ depositTree.height <= treeDepth
    /\ \/ \E n \in 0..(Exp2(treeDepth - depositTree.height) - 1) :
             /\ depositTree.root # NoHash
             /\ depositTree.height = MaxDepositSubTreeHeight
             /\ SubTreeEmpty(accounts, IntToPath(n, treeDepth - depositTree.height))
             /\ DepositsFinalisedStep(
                   [DepositSubTreeRoot |-> depositTree.root, PathToSubTree |-> n])
       \/ \E root \in StaleRoots(accounts, depositTree), n \in StalePlaces(last) :
             DepositsFinalisedStep([DepositSubTreeRoot |-> root, PathToSubTree |-> n])

Next ==
    \/ \E depth \in 0..MaxDepth, leaves \in 0..MaxDepth, users \in Users :
          DoInitBalancesTree(depth, GenesisAccounts(leaves, users))
    \/ NewBatch
    \/ SubmitBatch
    \/ FinaliseBatch
    \/ DepositQueued
    \/ DepositLeafMerged
    \/ DepositsFinalised

Spec == Init /\ [][Next]_vars

\* The same, with a write that may fail: update failAt of the account
\* table, or the insert into the ledger.
NewBatchFaulty ==
    /\ Initialised
    /\ \E index \in 1..MaxBatch, txs \in TxLists :
          \E root \in ReportedRoots(accounts, txs) :
              \/ \E failAt \in 1..MaxFailAt :
                    NewBatchStep(NewBatchEvent(index, txs, root), failAt, FALSE)
              \/ NewBatchStep(NewBatchEvent(index, txs, root), 0, TRUE)

NextFaulty ==
    \/ \E depth \in 0..MaxDepth, leaves \in 0..MaxDepth, users \in Users :
          DoInitBalancesTree(depth, GenesisAccounts(leaves, users))
    \/ NewBatch
    \/ NewBatchFaulty

SpecFaulty == Init /\ [][NextFaulty]_vars

\* The operations of the store on pending accounts, called by themselves:
\* a pending account of any id is deleted.
DoDeletePendingAccount ==
    /\ Initialised
    /\ \E ID \in 0..(MaxUser + 1) :
          /\ accounts' = DeletePendingAccount(accounts, ID)
          /\ last' = [kind |-> "DeletePendingAccount", ID |-> ID,
                      err |-> DeletePendingAccountError(accounts, ID)]
    /\ UNCHANGED <<batches, depositTree, treeDepth, nEvents, nDeposits, tokens>>

\* AttachDepositInfo called by itself, with a root that is not the root of
\* the deposit subtree.
DoAttachDepositInfo ==
    /\ Initialised
    /\ accounts' = AttachDepositInfo(accounts, BOGUSROOT)
    /\ last' = [kind |-> "AttachDepositInfo", root |-> BOGUSROOT]
    /\ UNCHANGED <<batches, depositTree, treeDepth, nEvents, nDeposits, tokens>>

\* UpdateAccount called by itself: a leaf of the tree gets a payload with
\* another balance.
DoUpdateAccount ==
    /\ Initialised
    /\ \E i \in DOMAIN accounts, balance \in 0..MaxAmount :
          /\ accounts[i].Type = TYPE_TERMINAL
          /\ Len(accounts[i].Path) = treeDepth
          /\ accounts' =
                UpdateAccount(Store(accounts, 0),
                    [accounts[i] EXCEPT
                        !.Data = EncodeAccount(accounts[i].AccountID, balance, 0)]).accs
          /\ last' = [kind |-> "UpdateAccount", path |-> accounts[i].Path,
                      data |-> EncodeAccount(accounts[i].AccountID, balance, 0),
                      err |-> UpdateAccount(Store(accounts, 0),
                                 [accounts[i] EXCEPT
                                    !.Data = EncodeAccount(accounts[i].AccountID,
                                                           balance, 0)]).err]
    /\ UNCHANGED <<batches, depositTree, treeDepth, nEvents, nDeposits, tokens>>

NextStore ==
    \/ \E depth \in 0..MaxDepth, leaves \in 0..MaxDepth, users \in Users :
          DoInitBalancesTree(depth, GenesisAccounts(leaves, users))
    \/ DepositQueued
    \/ DepositLeafMerged
    \/ DepositsFinalised
    \/ DoDeletePendingAccount
    \/ DoUpdateAccount
    \/ DoAttachDepositInfo

SpecStore == Init /\ [][NextStore]_vars

\* The transfer scenario: a tree whose leaf i is the account with id
\* first + i, the ids being counted from 0 or from 1, leaf 0 holding all
\* the balance, and batches of one transfer of the scenario's amount
\* between two of its accounts.
ScenarioAccounts(first) ==
    [i \in 1..Exp2(ScenarioDepth) |->
        NewUserAccount(first + i - 1, STATUS_ACTIVE, <<>>,
            EncodeAccount(first + i - 1, IF i = 1 THEN ScenarioBalance ELSE 0, 0))]

ScenarioInit ==
    \E first \in 0..1 : DoInitBalancesTree(ScenarioDepth, ScenarioAccounts(first))

ScenarioTransfer ==
    /\ Initialised
    /\ \E index \in 1..MaxBatch, f, t \in 0..Exp2(ScenarioDepth) :
          \E root \in ReportedRoots(accounts, <<Tx(f, t, ScenarioAmount)>>) :
              /\ f # t
              /\ NewBatchStep(NewBatchEvent(index, <<Tx(f, t, ScenarioAmount)>>, root),
                              0, FALSE)

NextScenario ==
    \/ ScenarioInit
    \/ ScenarioTransfer

SpecScenario == Init /\ [][NextScenario]_vars

\* The chain registers a token: any id with any address.
RegisteredTokenStep(event) ==
    /\ tokens' = processRegisteredToken(tokens, event).toks
    /\ last' = [kind |-> "RegisteredToken", event |-> event,
                outcome |-> processRegisteredToken(tokens, event).outcome,
                err |-> processRegisteredToken(tokens, event).err]
    /\ UNCHANGED <<accounts, batches, depositTree, treeDepth, nEvents, nDeposits>>

RegisteredToken ==
    \E id \in 1..MaxToken, address \in 1..MaxAddress :
        RegisteredTokenStep([TokenType |-> id, TokenContract |-> address])

NextTokens == RegisteredToken

SpecTokens == Init /\ [][NextTokens]_vars

--------------------------------------------------------------------------
(***************************************************************************)
(* Properties.                                                             *)
(***************************************************************************)
\* The node of accs at path extended by bit.
Child(accs, path, bit) == GetAccountByPath(accs, Append(path, bit))

\* The hash of node is the hash of the pair of its children's hashes.
NodeConsistent(accs, node) ==
    LET left == Child(accs, node.Path, 0)
        right == Child(accs, node.Path, 1)
    IN  /\ left.found
        /\ right.found
        /\ node.Hash = <<left.acc.Hash, right.acc.Hash>>

RootConsistentTree(accs) ==
    \A i \in DOMAIN accs : accs[i].Type # TYPE_TERMINAL => NodeConsistent(accs, accs[i])

\* The leaves of the tree: the terminal rows that hold a slot of it.
IsTreeLeaf(acc) == acc.Type = TYPE_TERMINAL /\ acc.Path # UNINITIALIZED_PATH

\* The batch of the ledger bats with id index, when there is one.
BatchOf(bats, index) == GetBatchByIndex(bats, index).batch
InLedger(bats, index) == GetBatchByIndex(bats, index).found

\* The store a batch's transactions leave when no write fails.
Applied(accs, txs) == ApplyTxsFromBatch(Store(accs, 0), txs)

\* C1: after a completed InitBalancesTree, UpdateAccount or deposit
\* finalisation, the hash of every stored non-terminal node, the root
\* included, is the hash of the pair of the hashes of its two children.
C1_RootConsistency == Initialised => RootConsistentTree(accounts)

\* A transfer has been applied to a tree of depth 2 or more into which
\* deposits have been finalised.
C1_Witness ==
    /\ last.kind = "NewBatch"
    /\ last.outcome = "ok"
    /\ last.branch = "new"
    /\ last.event.txs # <<>>
    /\ treeDepth >= 2
    /\ \E i \in DOMAIN accounts :
          /\ accounts[i].Status = STATUS_ACTIVE
          /\ accounts[i].CreatedByDepositSubTree # NoHash

\* C2: a NewBatch event handled twice in a row leaves the account table
\* and the ledger, the second time, as the first time left them.
C2_IdempotentRedelivery ==
    [][(last.kind = "NewBatch" /\ last'.kind = "NewBatch" /\ last'.event = last.event)
          => (accounts' = accounts /\ batches' = batches)]_vars

\* C3: after an update of a leaf that a failed write interrupted, no
\* node of the tree is inconsistent with its children.
C3_UpdateAllOrNothing ==
    (last.kind = "NewBatch" /\ last.err = "StorageWriteFailure")
        => RootConsistentTree(accounts)

C5_NoPartialBatch ==
    [][(/\ last'.kind = "NewBatch"
        /\ last'.outcome = "panic"
        /\ last'.err \in {"NotFound", "DecodeFailure", "InvalidTransaction"})
          => accounts' = accounts]_vars

\* The root the node holds for the batch of event: the state root of the
\* ledger's record, or the root of the tree once the transactions of a new
\* batch are applied.
LocalRoot(accs, bats, event) ==
    IF InLedger(bats, event.Index) THEN BatchOf(bats, event.Index).StateRoot
    ELSE RootHash(Applied(accs, FetchedTxs(event)).accs)

\* C6: a NewBatch event whose reported root differs from the root the node
\* holds for the batch ends in an error and leaves the ledger as it was.
C6_MismatchSurfaced ==
    [][(/\ last'.kind = "NewBatch"
        /\ InLedger(batches, last'.event.Index)
              \/ Applied(accounts, FetchedTxs(last'.event)).err = "none"
        /\ LocalRoot(accounts, batches, last'.event) # last'.event.UpdatedRoot)
          => (last'.outcome # "ok" /\ batches' = batches)]_vars

\* C7: a NewBatch event for a batch that is not in the ledger, whose
\* transactions the handler applied before it was interrupted, so that the
\* root of the tree is the reported root, does not apply them again.
C7_NoSecondApplication ==
    [][(/\ last.kind = "NewBatch"
        /\ last.branch = "new"
        /\ last.err = "BatchWriteFailure"
        /\ last'.kind = "NewBatch"
        /\ last'.branch = "new"
        /\ last'.event = last.event
        /\ RootHash(accounts) = last'.event.UpdatedRoot)
          => accounts' = accounts]_vars

C9_FirstObservation ==
    [][/\ (last'.kind = "NewBatch" /\ ~InLedger(batches, last'.event.Index))
            => IF last'.outcome = "ok"
               THEN /\ accounts' = Applied(accounts, FetchedTxs(last'.event)).accs
                    /\ Len(batches') = Len(batches) + 1
                    /\ SubSeq(batches', 1, Len(batches)) = batches
                    /\ batches'[Len(batches')].BatchID = last'.event.Index
                    /\ batches'[Len(batches')].Status = BATCH_COMMITTED
                    /\ batches'[Len(batches')].StateRoot = last'.event.UpdatedRoot
                    /\ batches'[Len(batches')].TxRoot = last'.event.Txroot
               ELSE batches' = batches
       /\ \A i, j \in DOMAIN batches' :
             batches'[i].BatchID = batches'[j].BatchID => i = j]_vars

\* A batch with transactions has been recorded after a first one.
C9_Witness ==
    /\ last.kind = "NewBatch"
    /\ last.branch = "new"
    /\ last.outcome = "ok"
    /\ last.event.txs # <<>>
    /\ Len(batches) = 2

\* The root recomputed from hash and the siblings from the i-th on: the
\* running hash is the left one when bit i of path from the right is 0.
RECURSIVE FoldProof(_, _, _, _)
FoldProof(hash, path, siblings, i) ==
    IF i >= Len(siblings) THEN hash
    ELSE FoldProof(IF path[Len(path) - i] = 0
                   THEN <<hash, siblings[i + 1].Hash>>
                   ELSE <<siblings[i + 1].Hash, hash>>,
                   path, siblings, i + 1)

\* C10: in a consistent tree, the hash of a leaf folded with the siblings
\* of its path, in order, is the hash stored at the root.
C10_SiblingProofRoundTrip ==
    (Initialised /\ RootConsistentTree(accounts)) =>
        \A i \in DOMAIN accounts :
            IsTreeLeaf(accounts[i]) =>
                /\ ~GetSiblings(accounts, accounts[i].Path).err
                /\ FoldProof(accounts[i].Hash, accounts[i].Path,
                             GetSiblings(accounts, accounts[i].Path).siblings, 0)
                      = GetAccountByPath(accounts, <<>>).acc.Hash

\* A tree of depth 2 or more whose leaves a batch has changed.
C10_Witness ==
    /\ treeDepth >= 2
    /\ RootConsistentTree(accounts)
    /\ last.kind = "NewBatch"
    /\ last.outcome = "ok"
    /\ \E i \in DOMAIN accounts :
          IsTreeLeaf(accounts[i]) /\ accounts[i].Data # NoData /\ Nonce(accounts[i]) > 0

\* The bit strings of length at most n.
BitStrings(n) == UNION {[1..k -> {0, 1}] : k \in 0..n}

\* The prefix of path of length Len(path) - i with its last bit flipped.
FlippedPrefix(path, i) ==
    [k \in 1..(Len(path) - i) |->
        IF k = Len(path) - i THEN 1 - path[k] ELSE path[k]]

Stored(accs, path) == \E k \in DOMAIN accs : accs[k].Path = path

\* C11: the siblings of a path are as many nodes as the path has bits, the
\* i-th (from 0) being the stored node at the prefix of length Len(path) - i
\* with its last bit flipped; when one of these nodes is not stored the
\* call fails.
C11_SiblingsShape ==
    Initialised =>
        \A path \in BitStrings(treeDepth + 1) :
            IF \A i \in 0..(Len(path) - 1) : Stored(accounts, FlippedPrefix(path, i))
            THEN /\ ~GetSiblings(accounts, path).err
                 /\ Len(GetSiblings(accounts, path).siblings) = Len(path)
                 /\ \A i \in 0..(Len(path) - 1) :
                       \E k \in DOMAIN accounts :
                           /\ accounts[k].Path = FlippedPrefix(path, i)
                           /\ GetSiblings(accounts, path).siblings[i + 1] = accounts[k]
            ELSE GetSiblings(accounts, path).err

\* A tree of depth 2 or more with a pending leaf beside it: the siblings
\* of a leaf are found, those of a path below the leaves are not.
C11_Witness ==
    /\ treeDepth >= 2
    /\ last.kind = "DepositQueued"
    /\ Len(GetSiblings(accounts, GenCoordinatorPath(treeDepth)).siblings) = treeDepth
    /\ GetSiblings(accounts, GenCoordinatorPath(treeDepth) \o <<1>>).err

\* C12: the height of the deposit subtree never exceeds the maximal
\* height; a DepositLeafMerged event that would raise it above the maximum
\* ends in HeightExceeded and leaves the height and the root as they were;
\* the height only decreases when a finalisation resets the subtree.
C12_AccumulatorBound ==
    [][/\ depositTree.height <= MaxDepositSubTreeHeight
       /\ depositTree'.height <= MaxDepositSubTreeHeight
       /\ (last'.kind = "DepositLeafMerged"
              /\ depositTree.height + 1 > MaxDepositSubTreeHeight)
            => /\ last'.err = "HeightExceeded"
               /\ last'.outcome = "panic"
               /\ depositTree' = depositTree
       /\ depositTree'.height < depositTree.height
            => /\ last'.kind = "DepositsFinalised"
               /\ depositTree' = EmptyDepositTree]_vars

\* A merge has been refused at the maximal height.
C12_Witness ==
    /\ last.kind = "DepositLeafMerged"
    /\ last.err = "HeightExceeded"
    /\ depositTree.height = MaxDepositSubTreeHeight
    /\ depositTree.root # NoHash

\* C13: while a DepositLeafMerged event is handled, a finalisation is
\* fired at the chain if and only if the merge succeeded and the height
\* it returned is the maximal height.
C13_FinalizeTrigger ==
    [][last'.kind = "DepositLeafMerged"
          => (last'.sent <=> (/\ last'.err # "HeightExceeded"
                              /\ depositTree'.height = MaxDepositSubTreeHeight))]_vars

\* C14: a DepositsFinalised event whose root is not the root of the deposit
\* subtree fails with StaleFinalize and changes neither the account table
\* nor the deposit subtree; the same event delivered again after it was
\* finalised changes nothing.
C14_StaleFinalizeRejected ==
    [][/\ (/\ last'.kind = "DepositsFinalised"
           /\ last'.event.DepositSubTreeRoot # depositTree.root)
            => /\ last'.err = "StaleFinalize"
               /\ accounts' = accounts
               /\ depositTree' = depositTree
       /\ (/\ last.kind = "DepositsFinalised"
           /\ last.err = "none"
           /\ last'.kind = "DepositsFinalised"
           /\ last'.event = last.event)
            => /\ last'.err = "StaleFinalize"
               /\ accounts' = accounts
               /\ depositTree' = depositTree]_vars

\* A DepositsFinalised event has been refused that reports the root of a
\* subtree grafted before, while deposits are pending.
C14_Witness ==
    /\ last.kind = "DepositsFinalised"
    /\ last.err = "StaleFinalize"
    /\ \E i \in DOMAIN accounts :
          /\ accounts[i].Status = STATUS_ACTIVE
          /\ accounts[i].CreatedByDepositSubTree # NoHash
          /\ accounts[i].CreatedByDepositSubTree = last.event.DepositSubTreeRoot

\* C15: an event handler that meets an error does not return normally:
\* the event ends in a fatal outcome.
C15_ErrorsHalt ==
    [][(/\ last'.kind \in {"NewBatch", "DepositQueued", "DepositLeafMerged",
                           "DepositsFinalised"}
        /\ last'.err # "none")
          => last'.outcome = "panic"]_vars

\* The rows of accs that are pending and tagged with root.
TaggedPending(accs, root) ==
    {i \in DOMAIN accs :
        accs[i].Status = STATUS_PENDING /\ accs[i].CreatedByDepositSubTree = root}

IsPrefix(q, path) == Len(q) <= Len(path) /\ SubSeq(path, 1, Len(q)) = q

C18_DimensionMismatch ==
    [][(last'.kind = "InitBalancesTree" /\ Exp2(last'.depth) # last'.count)
          => /\ last'.err = "DimensionMismatch"
             /\ accounts' = accounts
             /\ UNCHANGED <<batches, depositTree, treeDepth, nEvents, nDeposits>>]_vars

\* A call with a list that does not fit the depth was made on a store
\* that holds a tree.
C18_Witness ==
    /\ last.kind = "InitBalancesTree"
    /\ last.err = "DimensionMismatch"
    /\ Exp2(last.depth) # last.count
    /\ Initialised

\* The rows of accs of a type on a level.
RowsAt(accs, type, level) ==
    {i \in DOMAIN accs : accs[i].Type = type /\ accs[i].Level = level}

PathsAt(accs, type, level) == {accs[i].Path : i \in RowsAt(accs, type, level)}

\* The rows of accs whose path is the empty path.
Roots(accs) == {i \in DOMAIN accs : accs[i].Path = <<>>}

\* The tree a completed InitBalancesTree of depth leaves in the store.
TreeShape(accs, depth) ==
    /\ Cardinality(RowsAt(accs, TYPE_TERMINAL, depth)) = Exp2(depth)
    /\ PathsAt(accs, TYPE_TERMINAL, depth) = [1..depth -> {0, 1}]
    /\ \A k \in 1..Exp2(depth) :
          /\ accs[k].Type = TYPE_TERMINAL
          /\ accs[k].Path = IntToPath(k - 1, depth)
    /\ accs[1].Path = GenCoordinatorPath(depth)
    /\ \A l \in 0..(depth - 1) :
          /\ Cardinality(RowsAt(accs, TYPE_NON_TERMINAL, l)) = Exp2(l)
          /\ PathsAt(accs, TYPE_NON_TERMINAL, l) = [1..l -> {0, 1}]
    /\ Len(accs) = 2 * Exp2(depth) - 1

\* C19: a completed InitBalancesTree of a depth leaves the genesis
\* accounts, in their order, at all the paths of that length from the
\* coordinator's path on, and on every level above as many nodes as the
\* level has paths, each at its own path; and after it and after every
\* later step exactly one row has the empty path.
C19_TreeShape ==
    [][/\ (last'.kind = "InitBalancesTree" /\ last'.err = "none")
            => /\ TreeShape(accounts', last'.depth)
               /\ \E users \in Users :
                     \A k \in 1..Exp2(last'.depth) :
                         LET g == GenesisAccounts(last'.depth, users)[k]
                         IN  /\ accounts'[k].AccountID = g.AccountID
                             /\ accounts'[k].Data = g.Data
       /\ Initialised' => Cardinality(Roots(accounts')) = 1]_vars

\* A batch with a transfer has been applied to a tree of the maximal depth
\* into which two deposits were grafted, all after the initialisation.
C19_Witness ==
    /\ last.kind = "NewBatch"
    /\ last.outcome = "ok"
    /\ last.branch = "new"
    /\ treeDepth = MaxDepth
    /\ Len(accounts) = 2 * Exp2(treeDepth) - 1
    /\ \E i \in DOMAIN accounts :
          IsTreeLeaf(accounts[i]) /\ accounts[i].Data # NoData /\ Nonce(accounts[i]) > 0
    /\ Cardinality({i \in DOMAIN accounts :
            /\ accounts[i].Status = STATUS_ACTIVE
            /\ accounts[i].CreatedByDepositSubTree # NoHash}) = 2

\* The rows of accs that are active with account ID.
ActiveWithID(accs, ID) ==
    {i \in DOMAIN accs : accs[i].AccountID = ID /\ accs[i].Status = STATUS_ACTIVE}

\* C20: for every account id, id 0 included, at most one stored row that
\* is active has that id, and GetAccountByID, when it finds a row, returns
\* a terminal leaf, never a node InitBalancesTree created above the leaves.
C20_AccountIdUnique ==
    Initialised =>
        \A ID \in 0..(MaxUser + 1) :
            /\ Cardinality(ActiveWithID(accounts, ID)) <= 1
            /\ GetAccountByID(accounts, ID).found
                  => GetAccountByID(accounts, ID).acc.Type = TYPE_TERMINAL
\* The rows of accs that are pending with account ID.
PendingWithID(accs, ID) ==
    {i \in DOMAIN accs : accs[i].AccountID = ID /\ accs[i].Status = STATUS_PENDING}

\* C21: DeletePendingAccount removes the pending row of the id and no
\* other row, and when no row of the id is pending it returns the error
\* that nothing was found and leaves the table as it was.
C21_DeletePending ==
    [][last'.kind = "DeletePendingAccount"
          => IF PendingWithID(accounts, last'.ID) = {}
             THEN last'.err = "NotFound" /\ accounts' = accounts
             ELSE /\ last'.err = "none"
                  /\ accounts' = SelectSeq(accounts, LAMBDA a :
                        ~(a.AccountID = last'.ID /\ a.Status = STATUS_PENDING))]_vars
\* C22: a DepositQueued event adds one row, of the account of the event,
\* pending, terminal, at the unassigned path and with the hash of the
\* data of the event; every row stored before is as it was, and so are
\* the root of the tree and the deposit subtree.
C22_DepositQueuedFrame ==
    [][last'.kind = "DepositQueued"
          => /\ Len(accounts') = Len(accounts) + 1
             /\ SubSeq(accounts', 1, Len(accounts)) = accounts
             /\ LET new == accounts'[Len(accounts')]
                IN  /\ new.AccountID = last'.event.AccountID
                    /\ new.Data = last'.event.Data
                    /\ new.Status = STATUS_PENDING
                    /\ new.Type = TYPE_TERMINAL
                    /\ new.Path = UNINITIALIZED_PATH
                    /\ new.Hash = Keccak256(last'.event.Data)
             /\ RootHash(accounts') = RootHash(accounts)
             /\ depositTree' = depositTree]_vars

\* A second deposit has been queued in a tree of the maximal depth on which
\* a batch was recorded.
C22_Witness ==
    /\ last.kind = "DepositQueued"
    /\ last.outcome = "ok"
    /\ treeDepth = MaxDepth
    /\ batches # <<>>
    /\ Cardinality({i \in DOMAIN accounts : accounts[i].Status = STATUS_PENDING}) = 2
\* C23: a NewBatch event whose transaction root is the all-zero root is
\* handled without fetching the call data and without applying a
\* transaction: the account table, with the root of the tree, and the
\* deposit subtree are as before; only the ledger may change.
C23_EmptyBatchSentinel ==
    [][(last'.kind = "NewBatch" /\ last'.event.Txroot = ZEROROOT)
          => /\ ~last'.fetched
             /\ FetchedTxs(last'.event) = <<>>
             /\ accounts' = accounts
             /\ RootHash(accounts') = RootHash(accounts)
             /\ UNCHANGED <<depositTree, treeDepth>>]_vars

\* An empty batch was recorded in the ledger after a batch with a transfer.
C23_Witness ==
    /\ last.kind = "NewBatch"
    /\ last.event.Txroot = ZEROROOT
    /\ last.outcome = "ok"
    /\ last.branch = "new"
    /\ Len(batches) = 2
    /\ batches[1].TransactionsIncluded # <<>>
    /\ batches[2].TxRoot = ZEROROOT
\* C24: the token table only grows: every row stays as it is, an id has
\* one row, that of the first event that registered it, a new id gets the
\* row of its event, and an event for a registered id with another
\* address ends in an error and changes nothing.
C24_TokensAppendOnly ==
    [][/\ Len(tokens') >= Len(tokens)
       /\ SubSeq(tokens', 1, Len(tokens)) = tokens
       /\ \A i, j \in DOMAIN tokens' :
             tokens'[i].TokenID = tokens'[j].TokenID => i = j
       /\ last'.kind = "RegisteredToken"
             => LET id == last'.event.TokenType
                    address == last'.event.TokenContract
                IN  IF TokenRows(tokens, id) = {}
                    THEN tokens' = Append(tokens, Token(id, address))
                    ELSE /\ tokens' = tokens
                         /\ (\E i \in TokenRows(tokens, id) : tokens[i].Address # address)
                               => last'.err # "none"]_vars

\* A token that is registered was registered again with another address.
C24_Witness ==
    /\ last.kind = "RegisteredToken"
    /\ last.err = "DuplicateToken"
    /\ Len(tokens) >= 2
    /\ \E i \in DOMAIN tokens :
          /\ tokens[i].TokenID = last.event.TokenType
          /\ tokens[i].Address # last.event.TokenContract
\* The hashes of the nodes of a level paired from the left, up to the root.
RECURSIVE PairUp(_)
PairUp(hashes) ==
    IF Len(hashes) <= 1 THEN hashes
    ELSE <<GetParent(hashes[1], hashes[2])>> \o PairUp(SubSeq(hashes, 3, Len(hashes)))

RECURSIVE MerkleRoot(_)
MerkleRoot(hashes) ==
    IF Len(hashes) = 1 THEN hashes[1] ELSE MerkleRoot(PairUp(hashes))

\* The leaf number k of a tree of a depth, and the hashes of its leaves.
LeafAt(accs, depth, k) == GetAccountByPath(accs, IntToPath(k, depth)).acc

LeafHashes(accs, depth) == [i \in 1..Exp2(depth) |-> LeafAt(accs, depth, i - 1).Hash]

\* C25: in the tree of the scenario, whose leaf 0 holds the balance, a
\* batch of one transfer of the amount from leaf 0 to leaf 1 is applied:
\* leaf 0 has the balance less the amount, leaf 1 the amount, the other
\* leaves are as before, and the stored root is not the genesis root and is
\* the root of the hashes of the leaves paired level by level.
C25_TransferResult ==
    [][(/\ last.kind = "InitBalancesTree"
        /\ last'.kind = "NewBatch"
        /\ last'.event.txs = <<Tx(LeafAt(accounts, ScenarioDepth, 0).AccountID,
                                     LeafAt(accounts, ScenarioDepth, 1).AccountID,
                                     ScenarioAmount)>>)
          => /\ last'.outcome = "ok"
             /\ Balance(LeafAt(accounts', ScenarioDepth, 0)) = ScenarioBalance - ScenarioAmount
             /\ Balance(LeafAt(accounts', ScenarioDepth, 1)) = ScenarioAmount
             /\ \A k \in 2..(Exp2(ScenarioDepth) - 1) :
                   LeafAt(accounts', ScenarioDepth, k) = LeafAt(accounts, ScenarioDepth, k)
             /\ RootHash(accounts') # RootHash(accounts)
             /\ RootHash(accounts') = MerkleRoot(LeafHashes(accounts', ScenarioDepth))]_vars
\* Account ID has an active leaf in accs.
HasActiveLeaf(accs, ID) ==
    \E i \in DOMAIN accs :
        /\ accs[i].AccountID = ID
        /\ accs[i].Status = STATUS_ACTIVE
        /\ accs[i].Type = TYPE_TERMINAL

\* tx names a sender or a receiver that has no active leaf in accs.
NamesUnknown(accs, tx) == ~HasActiveLeaf(accs, tx.from) \/ ~HasActiveLeaf(accs, tx.to)

\* C26: when the first transaction of a new batch names an account with no
\* active leaf, applying the batch fails with the error that the account
\* was not found and the account table is as before; when it is the second
\* transaction, the first being applied, the batch fails with that error
\* and the account table is as the first transaction left it.
C26_UnknownAccountAborts ==
    [][(/\ last'.kind = "NewBatch"
        /\ last'.branch = "new"
        /\ FetchedTxs(last'.event) # <<>>)
          => LET txs == FetchedTxs(last'.event)
                 first == ApplyTxsFromBatch(Store(accounts, 0), <<txs[1]>>)
             IN  /\ NamesUnknown(accounts, txs[1])
                       => /\ last'.outcome = "panic"
                          /\ last'.err = "NotFound"
                          /\ accounts' = accounts
                 /\ (/\ Len(txs) >= 2
                     /\ ~NamesUnknown(accounts, txs[1])
                     /\ first.err = "none"
                     /\ NamesUnknown(accounts, txs[2]))
                       => /\ last'.outcome = "panic"
                          /\ last'.err = "NotFound"
                          /\ accounts' = first.accs]_vars
IsProperPrefix(q, path) == Len(q) < Len(path) /\ IsPrefix(q, path)

\* C27: an UpdateAccount that succeeds on the leaf at a path changes that
\* leaf, and of the nodes above it, whose paths are the proper prefixes of
\* the path, the hash only; every other row, the siblings and the pending
\* leaves among them, is as it was, and no row is added or removed.
C27_UpdateLeafFrame ==
    [][(last'.kind = "UpdateAccount" /\ last'.err = "none")
          => /\ Len(accounts') = Len(accounts)
             /\ \A i \in DOMAIN accounts :
                   IF accounts[i].Path = last'.path
                   THEN /\ accounts'[i].Path = last'.path
                        /\ accounts'[i].Hash = Keccak256(last'.data)
                   ELSE IF IsProperPrefix(accounts[i].Path, last'.path)
                   THEN accounts'[i] = [accounts[i] EXCEPT !.Hash = accounts'[i].Hash]
                   ELSE accounts'[i] = accounts[i]]_vars

\* The leaf of an account in a tree of the maximal depth was updated while
\* two accounts were pending.
C27_Witness ==
    /\ last.kind = "UpdateAccount"
    /\ last.err = "none"
    /\ treeDepth = MaxDepth
    /\ Len(last.path) = MaxDepth
    /\ Cardinality({i \in DOMAIN accounts : accounts[i].Status = STATUS_PENDING}) = 2
    /\ \E i \in DOMAIN accounts :
          /\ accounts[i].Path = last.path
          /\ accounts[i].Data = last.data
          /\ accounts[i].AccountID # 0
\* C28: AttachDepositInfo sets the root every pending row was created by,
\* tagged before or not, and changes no other row; after it the pending
\* rows of the root are all the pending rows, and no row is pending for a
\* root that a row was tagged with before.
C28_DepositTagging ==
    [][last'.kind = "AttachDepositInfo"
          => /\ Len(accounts') = Len(accounts)
             /\ \A i \in DOMAIN accounts :
                   IF accounts[i].Status = STATUS_PENDING
                   THEN accounts'[i] =
                           [accounts[i] EXCEPT !.CreatedByDepositSubTree = last'.root]
                   ELSE accounts'[i] = accounts[i]
             /\ GetPendingAccByDepositRoot(accounts', last'.root) = PendingRows(accounts')
             /\ \A i \in DOMAIN accounts :
                   accounts[i].CreatedByDepositSubTree # last'.root
                      => GetPendingAccByDepositRoot(accounts',
                             accounts[i].CreatedByDepositSubTree) = <<>>]_vars

\* Two pending accounts that a merge had tagged with the root of the deposit
\* subtree are tagged with another root, in a tree that holds an account.
C28_Witness ==
    /\ last.kind = "AttachDepositInfo"
    /\ depositTree.root # NoHash
    /\ depositTree.root # last.root
    /\ Len(GetPendingAccByDepositRoot(accounts, last.root)) = 2
    /\ \E i \in DOMAIN accounts :
          accounts[i].AccountID = 1 /\ accounts[i].Status = STATUS_ACTIVE
\* C29: the level of every stored row is the length of its path, so that
\* the query of GetRoot finds the row with the empty path and the query of
\* the rows of a level returns the rows whose path has that length.
C29_LevelIsPathLength ==
    Initialised =>
        /\ \A i \in DOMAIN accounts : accounts[i].Level = Len(accounts[i].Path)
        /\ GetRoot(accounts).found
        /\ GetRoot(accounts).acc.Path = <<>>
        /\ \A l \in 0..(MaxDepth + 2) :
              GetAccountsAtDepth(accounts, l)
                 = SelectSeq(accounts, LAMBDA a : Len(a.Path) = l)

\* Deposits were given their paths in a tree of the maximal depth while
\* the tree held rows on every level and a pending row was re-pathed.
C29_Witness ==
    /\ last.kind = "DepositsFinalised"
    /\ last.err = "none"
    /\ treeDepth = MaxDepth
    /\ \A l \in 0..MaxDepth : GetAccountsAtDepth(accounts, l) # <<>>
    /\ \E i \in DOMAIN accounts :
          /\ accounts[i].CreatedByDepositSubTree = last.event.DepositSubTreeRoot
          /\ accounts[i].Status = STATUS_ACTIVE
          /\ accounts[i].Level = MaxDepth
==========================================================================
